---- MODULE Spec2Model ----
(***************************************************************************)
(* Model of src/messages/message_manager.py: the MessageManager that       *)
(* publishes to, receives from and resolves messages of two SQS queues     *)
(* (the message queue and the bot queue) and drives the scheduler's        *)
(* occurrence records (in_queue, last_occurrence, expired) keyed by        *)
(* (uuid, person name).                                                    *)
(***************************************************************************)
EXTENDS Integers, Sequences, FiniteSets, TLC

\* Bounds of the model.
MaxPublished == 2   \* send_message calls in one behaviour
MaxHeld == 2    \* records accumulated in self.messages (never cleared by the code)
MaxTime == 2    \* last reading of the clock

\* kwargs.get('MaxNumberOfMessages', 10)
DefaultMaxNumberOfMessages == 10

Persons == {"alice", "bob"}
\* The non-empty UUIDs: what a caller supplies and what str(uuid.uuid4())
\* may produce are drawn from the same set.
UUIDs == {"u1"}
Uuid4 == UUIDs
\* Marker for a keyword argument that is not passed at all.
Absent == "<absent>"
Bodies == {"Hello"}
BotNameValues == {"bot1"}
\* kwargs.pop('VoiceId', 'Joanna')
DefaultVoice == "Joanna"
Voices == {DefaultVoice, "Matthew"}
\* kwargs.pop('ExpirationDateTimeInUtc', '2299-12-31 00:00:00'): times are
\* counted in readings of the clock, the default lies after all of them.
DefaultExpiration == 2299
Expirations == {1, DefaultExpiration}
MessageTypes == {"Message", "Bot"}
Pairs == UUIDs \X Persons

VARIABLES
    queue,         \* SQS entries of pollexy-inbox-<location>
    bot_queue,     \* SQS entries of pollexy-inbox-<location>-bot
    published,     \* number of send_message calls so far (the source of SQS message ids)
    inflight,      \* ids of the entries hidden by a receive (visibility timeout running)
    occ,           \* the scheduler's record per (uuid, person)
    messages,      \* self.messages: dict person name -> list of QueuedMessage
    sqs_msgs,      \* self.sqs_msgs
    has_sqs_msgs,  \* whether the attribute self.sqs_msgs exists yet
    now,           \* the latest reading of the clock
    call           \* the last MessageManager call: what it fetched and returned, its error

vars == <<queue, bot_queue, published, inflight, occ, messages, sqs_msgs, has_sqs_msgs, now, call>>

Min(a, b) == IF a < b THEN a ELSE b

\* The number of records in the lists of the dict self.messages.
HeldCount(msgs) ==
    LET RECURSIVE Sum(_)
        Sum(D) == IF D = {} THEN 0
                  ELSE LET p == CHOOSE x \in D : TRUE
                       IN Len(msgs[p]) + Sum(D \ {p})
    IN Sum(DOMAIN msgs)

----------------------------------------------------------------------------
\* The collaborators of MessageManager.

\* QueuedMessage(QueuedMessage=m): the typed view of one SQS message.
\* The attributes are string-encoded; NoMoreOccurrences is "True"/"False".
QueuedMessage(m) ==
    [person_name |-> m.PersonName,
     uuid_key |-> m.UUID,
     no_more_occurrences |-> (m.NoMoreOccurrences = "True"),
     body |-> m.Body,
     voice_id |-> m.Voice,
     expiration_datetime_in_utc |-> m.ExpirationDateTimeInUtc]

\* QueuedMessage.is_expired, read when the clock shows t.
is_expired(qm, t) == t > qm.expiration_datetime_in_utc

\* Scheduler.update_queue_status(uuid_key, person_name, is_in_queue)
update_queue_status(o, uuid_key, person_name, is_in_queue) ==
    [o EXCEPT ![<<uuid_key, person_name>>].in_queue = is_in_queue]

\* Scheduler.update_last_occurrence(uuid_key, person_name)
update_last_occurrence(o, uuid_key, person_name, t) ==
    [o EXCEPT ![<<uuid_key, person_name>>].last_occurrence = t]

\* Scheduler.set_expired(uuid_key, person_name)
set_expired(o, uuid_key, person_name) ==
    [o EXCEPT ![<<uuid_key, person_name>>].expired = TRUE]

\* str(no_more_occ)
Str(b) == IF b THEN "True" ELSE "False"

\* The sequences queue.receive_messages may return: any number, up to
\* MaxNumberOfMessages, of distinct visible entries, in any order.
ReceiveMessages(q, hidden, max_number_of_messages) ==
    LET visible == {m \in q : m.mid \notin hidden}
    IN UNION {{s \in [1..k -> visible] : \A i, j \in 1..k : i # j => s[i] # s[j]} :
              k \in 0..Min(max_number_of_messages, Cardinality(visible))}

\* client.delete_message(QueueUrl, ReceiptHandle): removes the entry the
\* receipt belongs to; deleting an entry that is already gone is no error.
delete_message(W, m) ==
    [W EXCEPT !.queue = {e \in @ : e.mid # m.mid},
              !.bot_queue = {e \in @ : e.mid # m.mid},
              !.inflight = @ \ {m.mid}]

----------------------------------------------------------------------------
\* The methods of MessageManager, as functions of the world W:
\* [queue, bot_queue, inflight, occ, messages, sqs_msgs].

World ==
    [queue |-> queue, bot_queue |-> bot_queue, inflight |-> inflight,
     occ |-> occ, messages |-> messages, sqs_msgs |-> sqs_msgs]

\* Skipped with the slip of ignoring the filter.
Skipped_NoFilter(qm, person_name) == FALSE

\* "if person_name and not qm.person_name == person_name: continue"
Skipped(qm, person_name) == person_name # "" /\ ~(qm.person_name = person_name)

\* Lines 127-136: one matching record is taken into the batch.
TakeMessage(W, m) ==
    LET qm == QueuedMessage(m)
        held == IF qm.person_name \in DOMAIN W.messages
                THEN W.messages
                ELSE [p \in DOMAIN W.messages \cup {qm.person_name} |->
                         IF p \in DOMAIN W.messages THEN W.messages[p] ELSE <<>>]
    IN [W EXCEPT !.messages = [held EXCEPT ![qm.person_name] = Append(@, qm)],
                 !.sqs_msgs = Append(@, m),
                 !.occ = update_queue_status(@, qm.uuid_key, qm.person_name, FALSE)]

\* get_messages_loop with the slip of keeping the receipt of a skipped
\* message in self.sqs_msgs, so that a resolve deletes its entry.
RECURSIVE get_messages_loop_HoldsSkipped(_, _, _, _, _)
get_messages_loop_HoldsSkipped(W, msgs, fetched, i, person_name) ==
    IF i > Len(fetched)
    THEN [W |-> W, ret |-> <<>>]
    ELSE LET m == fetched[i]
             qm == QueuedMessage(m)
         IN IF Skipped(qm, person_name)
            THEN get_messages_loop_HoldsSkipped([W EXCEPT !.sqs_msgs = Append(@, m)],
                                                msgs, fetched, i + 1, person_name)
            ELSE [W |-> TakeMessage(W, m), ret |-> Append(msgs, qm)]

\* Lines 121-137: the loop over the fetched messages. The return statement
\* is inside the loop body, so the loop ends at the first record it takes.
RECURSIVE get_messages_loop(_, _, _, _, _)
get_messages_loop(W, msgs, fetched, i, person_name) ==
    IF i > Len(fetched)
    THEN [W |-> W, ret |-> <<>>]     \* falls off the end: returns None
    ELSE LET m == fetched[i]
             qm == QueuedMessage(m)
         IN IF Skipped(qm, person_name)
            THEN get_messages_loop(W, msgs, fetched, i + 1, person_name)
            ELSE [W |-> TakeMessage(W, m), ret |-> Append(msgs, qm)]

\* Lines 92-137, given what receive_messages returned.
get_messages_on(W, person_name, fetched) ==
    LET W0 == [W EXCEPT !.sqs_msgs = <<>>,
                        !.inflight = @ \cup {fetched[i].mid : i \in DOMAIN fetched}]
    IN IF Len(fetched) > 0
       THEN get_messages_loop(W0, <<>>, fetched, 1, person_name)
       ELSE [W |-> W0, ret |-> <<>>]

\* Lines 156-162.
RECURSIVE delete_sqs_msgs_from(_, _)
delete_sqs_msgs_from(W, i) ==
    IF i > Len(W.sqs_msgs) THEN W
    ELSE delete_sqs_msgs_from(delete_message(W, W.sqs_msgs[i]), i + 1)

\* delete_sqs_msgs with the slip of sending no delete_message.
delete_sqs_msgs_DeletesNone(W) == W

delete_sqs_msgs(W) == delete_sqs_msgs_from(W, 1)

\* FailOne with the slip of expiring a record with no more occurrences, as a success does.
FailOne_Expires(o, m) ==
    LET qm == QueuedMessage(m)
        o1 == update_queue_status(o, qm.uuid_key, qm.person_name, FALSE)
    IN IF qm.no_more_occurrences
       THEN set_expired(o1, qm.uuid_key, qm.person_name)
       ELSE o1

\* Lines 171-175: the occurrence updates of fail_messages for one message.
FailOne(o, m) ==
    LET qm == QueuedMessage(m)
    IN update_queue_status(o, qm.uuid_key, qm.person_name, FALSE)

RECURSIVE FailAll(_, _, _)
FailAll(o, ms, i) ==
    IF i > Len(ms) THEN o ELSE FailAll(FailOne(o, ms[i]), ms, i + 1)

\* fail_messages_on with the slip of not looking at DontDelete.
fail_messages_on_IgnoresDontDelete(W, dont_delete) ==
    delete_sqs_msgs([W EXCEPT !.occ = FailAll(@, W.sqs_msgs, 1)])

\* Lines 164-176.
fail_messages_on(W, dont_delete) ==
    IF dont_delete THEN W
    ELSE delete_sqs_msgs([W EXCEPT !.occ = FailAll(@, W.sqs_msgs, 1)])

\* SucceedOne with the slip of calling set_expired whatever no_more_occurrences is.
SucceedOne_AlwaysExpires(o, m, t) ==
    LET qm == QueuedMessage(m)
        o1 == update_last_occurrence(o, qm.uuid_key, qm.person_name, t)
        o2 == update_queue_status(o1, qm.uuid_key, qm.person_name, FALSE)
    IN set_expired(o2, qm.uuid_key, qm.person_name)

\* Lines 188-192: the occurrence updates of succeed_messages for one message.
SucceedOne(o, m, t) ==
    LET qm == QueuedMessage(m)
        o1 == update_last_occurrence(o, qm.uuid_key, qm.person_name, t)
        o2 == update_queue_status(o1, qm.uuid_key, qm.person_name, FALSE)
    IN IF qm.no_more_occurrences
       THEN set_expired(o2, qm.uuid_key, qm.person_name)
       ELSE o2

RECURSIVE SucceedAll(_, _, _, _)
SucceedAll(o, ms, i, t) ==
    IF i > Len(ms) THEN o ELSE SucceedAll(SucceedOne(o, ms[i], t), ms, i + 1, t)

\* Lines 178-193.
succeed_messages_on(W, dont_delete, t) ==
    IF dont_delete THEN W
    ELSE delete_sqs_msgs([W EXCEPT !.occ = SucceedAll(@, W.sqs_msgs, 1, t)])

\* SendsToBotQueue with the slip of sending everything to the message queue.
SendsToBotQueue_Never(bot_names) == FALSE

\* Lines 271-278: the queue publish_message sends to.
SendsToBotQueue(bot_names) == bot_names # ""

\* PublishError with the slip of not checking the body.
PublishError_NoBodyCheck(person_name, uuid_key, body, unexpected) ==
    IF person_name = "" THEN "ValueError: No person provided"
    ELSE IF uuid_key = "" THEN "ValueError: No uuid provided"
    ELSE IF unexpected THEN "TypeError: Unexpected **kwargs"
    ELSE ""

\* Lines 216-223: the error publish_message raises, "" when it raises none.
PublishError(person_name, uuid_key, body, unexpected) ==
    IF person_name = "" THEN "ValueError: No person provided"
    ELSE IF uuid_key = "" THEN "ValueError: No uuid provided"
    ELSE IF body = "" THEN "ValueError: No message body provided"
    ELSE IF unexpected THEN "TypeError: Unexpected **kwargs"
    ELSE ""

----------------------------------------------------------------------------
\* The last MessageManager call; the steps of the clock, of SQS and of the
\* scheduler leave it as it is.
\* While a call runs statement by statement, at is <<line, i>>: the source
\* line it executes next, for the i-th message of self.sqs_msgs; at is <<>>
\* once the call has returned or raised.
NoCall ==
    [op |-> "", DontDelete |-> FALSE, error |-> "", fetched |-> <<>>, ret |-> <<>>,
     at |-> <<>>]

Init ==
    /\ queue = {}
    /\ bot_queue = {}
    /\ published = 0
    /\ inflight = {}
    /\ occ = [k \in Pairs |-> [in_queue |-> FALSE, last_occurrence |-> 0, expired |-> FALSE]]
    /\ messages = <<>>
    /\ sqs_msgs = <<>>
    /\ has_sqs_msgs = FALSE
    /\ now = 1
    /\ call = NoCall

SetWorld(W) ==
    /\ queue' = W.queue
    /\ bot_queue' = W.bot_queue
    /\ inflight' = W.inflight
    /\ occ' = W.occ
    /\ messages' = W.messages
    /\ sqs_msgs' = W.sqs_msgs

\* Lines 205-279. pm.get_person(person_name) is taken to find the person; the
\* Locations attribute is read by no method modelled here.
publish_message(person_name, uuid_arg, body, no_more_occ, bot_names, unexpected, voice, expiration_date) ==
    \E generated \in Uuid4 :
      LET uuid_key == IF uuid_arg = Absent THEN generated ELSE uuid_arg
          error == PublishError(person_name, uuid_key, body, unexpected)
          m == [mid |-> published + 1, PersonName |-> person_name, UUID |-> uuid_key,
                NoMoreOccurrences |-> Str(no_more_occ), Body |-> body,
                Voice |-> voice, ExpirationDateTimeInUtc |-> expiration_date]
      IN /\ error = "" => published < MaxPublished
         /\ call' = [NoCall EXCEPT !.op = "publish_message", !.error = error]
         /\ IF error # ""
            THEN UNCHANGED <<queue, bot_queue, published>>
            ELSE /\ published' = published + 1
                 /\ IF SendsToBotQueue(bot_names)
                    THEN /\ bot_queue' = bot_queue \cup {m}
                         /\ UNCHANGED queue
                    ELSE /\ queue' = queue \cup {m}
                         /\ UNCHANGED bot_queue
         /\ UNCHANGED <<inflight, occ, messages, sqs_msgs, has_sqs_msgs, now>>

\* Lines 97 and 117-137: get_messages once receive_messages has returned fetched.
get_messages_received(person_name, fetched) ==
    LET r == get_messages_on(World, person_name, fetched)
    IN /\ HeldCount(r.W.messages) <= MaxHeld
       /\ SetWorld(r.W)
       /\ has_sqs_msgs' = TRUE
       /\ call' = [NoCall EXCEPT !.op = "get_messages",
                                 !.fetched = fetched, !.ret = r.ret]
       /\ UNCHANGED <<published, now>>

\* Lines 92-137.
get_messages(person_name, message_type, max_number_of_messages) ==
    LET q == IF message_type = "Message" THEN queue ELSE bot_queue
    IN \E fetched \in ReceiveMessages(q, inflight, max_number_of_messages) :
         get_messages_received(person_name, fetched)

\* Lines 146-149: the paragraphs write_speech puts between <speak> and
\* </speak>, one "<p>body</p>" per record of the list that is not expired
\* when the clock shows t, in the order of the list.
Paragraphs(held, t) ==
    LET spoken == SelectSeq(held, LAMBDA m : ~is_expired(m, t))
    IN [i \in DOMAIN spoken |-> spoken[i].body]

\* Line 147: self.messages[person_name] of a dict that has no such key.
SpeechError(msgs, person_name) ==
    IF DOMAIN msgs # {} /\ person_name \notin DOMAIN msgs THEN "KeyError" ELSE ""

\* Lines 144-154: what write_speech returns, <<>> for (None, None) and
\* <<voice id, paragraphs>> otherwise. The voice is read from the loop
\* variable m after the loop, that is from the last record of the list.
SpeechResult(msgs, person_name, t) ==
    IF DOMAIN msgs = {} THEN <<>>
    ELSE LET held == msgs[person_name]
         IN IF Paragraphs(held, t) = <<>> THEN <<>>
            ELSE <<held[Len(held)].voice_id, Paragraphs(held, t)>>

\* Lines 139-154 once the receive_messages of its get_messages has returned
\* fetched, the clock showing t. SpeechHelper.replace_tokens is not modelled:
\* the speech is kept as its paragraphs.
write_speech_received(person_name, t, fetched) ==
    LET r == get_messages_on(World, person_name, fetched)
        error == SpeechError(r.W.messages, person_name)
        read == error = "" /\ DOMAIN r.W.messages # {}
    IN /\ HeldCount(r.W.messages) <= MaxHeld
       /\ SetWorld(r.W)
       /\ has_sqs_msgs' = TRUE
       /\ call' = [NoCall EXCEPT !.op = "write_speech", !.error = error,
                                 !.fetched = fetched,
                                 !.ret = IF error = ""
                                         THEN SpeechResult(r.W.messages, person_name, t)
                                         ELSE <<>>]
       /\ now' = IF read THEN t ELSE now
       /\ UNCHANGED published

\* Lines 139-154. DontDelete is handed to get_messages, which does not read it.
write_speech(person_name, dont_delete, t) ==
    \E fetched \in ReceiveMessages(queue, inflight, DefaultMaxNumberOfMessages) :
       write_speech_received(person_name, t, fetched)

\* "for m in self.sqs_msgs" before any get_messages: the attribute does not exist.
NoBatchError(dont_delete) ==
    IF ~dont_delete /\ ~has_sqs_msgs THEN "AttributeError: sqs_msgs" ELSE ""

\* Lines 164-176.
fail_messages(dont_delete) ==
    LET error == NoBatchError(dont_delete)
    IN /\ call' = [NoCall EXCEPT !.op = "fail_messages", !.DontDelete = dont_delete,
                                 !.error = error]
       /\ IF error # ""
          THEN UNCHANGED <<queue, bot_queue, inflight, occ, messages, sqs_msgs>>
          ELSE SetWorld(fail_messages_on(World, dont_delete))
       /\ UNCHANGED <<published, has_sqs_msgs, now>>

\* Lines 178-193, called when the clock reads t.
\* The clock is read by update_last_occurrence alone.
succeed_messages(dont_delete, t) ==
    LET error == NoBatchError(dont_delete)
    IN /\ call' = [NoCall EXCEPT !.op = "succeed_messages", !.DontDelete = dont_delete,
                                 !.error = error]
       /\ IF error # ""
          THEN UNCHANGED <<queue, bot_queue, inflight, occ, messages, sqs_msgs>>
          ELSE SetWorld(succeed_messages_on(World, dont_delete, t))
       /\ now' = IF error = "" /\ ~dont_delete THEN t ELSE now
       /\ UNCHANGED <<published, has_sqs_msgs>>

\* Lines 196-199: the bot queue's half of reset, receive_messages having
\* returned bot_fetched.
reset_bot_on(W, bot_fetched) ==
    delete_sqs_msgs(fail_messages_on(get_messages_on(W, "", bot_fetched).W, FALSE))

\* Lines 195-203, the two receive_messages having returned bot_fetched and fetched.
reset_received(bot_fetched, fetched) ==
    LET W2 == reset_bot_on(World, bot_fetched)
        W3 == get_messages_on(W2, "", fetched).W
        W4 == delete_sqs_msgs(fail_messages_on(W3, FALSE))
    IN /\ HeldCount(W4.messages) <= MaxHeld
       /\ SetWorld(W4)
       /\ has_sqs_msgs' = TRUE
       /\ call' = [NoCall EXCEPT !.op = "reset"]
       /\ UNCHANGED <<published, now>>

\* Lines 195-203.
reset ==
    \E bot_fetched \in ReceiveMessages(bot_queue, inflight, DefaultMaxNumberOfMessages) :
      LET W2 == reset_bot_on(World, bot_fetched)
      IN \E fetched \in ReceiveMessages(W2.queue, W2.inflight, DefaultMaxNumberOfMessages) :
           reset_received(bot_fetched, fetched)

\* SQS: the visibility timeout of a received entry runs out.
VisibilityTimeout(mid) ==
    /\ mid \in inflight
    /\ inflight' = inflight \ {mid}
    /\ UNCHANGED <<queue, bot_queue, published, occ, messages, sqs_msgs, has_sqs_msgs, now, call>>

\* The scheduler, which owns the occurrence records, marks a pair as queued
\* while a message of the pair is in a queue.
SchedulerQueues(key) ==
    /\ \E m \in queue \cup bot_queue : <<m.UUID, m.PersonName>> = key
    /\ ~occ[key].in_queue
    /\ occ' = update_queue_status(occ, key[1], key[2], TRUE)
    /\ UNCHANGED <<queue, bot_queue, published, inflight, messages, sqs_msgs, has_sqs_msgs, now, call>>

\* The calls of publish_message that pass the checks of lines 216-223.
ValidRequests ==
    [PersonName : Persons, UUID : UUIDs \cup {Absent}, Body : Bodies,
     NoMoreOccurrences : BOOLEAN, BotNames : BotNameValues \cup {""}, unexpected : {FALSE},
     VoiceId : {DefaultVoice}, ExpirationDateTimeInUtc : {DefaultExpiration}]

\* Those, and the calls that fail a check, with the other arguments at their defaults.
PublishRequests ==
    ValidRequests \cup
    [PersonName : {"alice", ""}, UUID : UUIDs \cup {""}, Body : Bodies \cup {""},
     NoMoreOccurrences : {FALSE}, BotNames : BotNameValues \cup {""}, unexpected : BOOLEAN,
     VoiceId : {DefaultVoice}, ExpirationDateTimeInUtc : {DefaultExpiration}]

Publish ==
    \E r \in ValidRequests :
       publish_message(r.PersonName, r.UUID, r.Body, r.NoMoreOccurrences, r.BotNames,
                       r.unexpected, r.VoiceId, r.ExpirationDateTimeInUtc)

PublishAny ==
    \E r \in PublishRequests :
       publish_message(r.PersonName, r.UUID, r.Body, r.NoMoreOccurrences, r.BotNames,
                       r.unexpected, r.VoiceId, r.ExpirationDateTimeInUtc)

Receive ==
    \E person_name \in Persons \cup {""}, message_type \in MessageTypes,
       max_number_of_messages \in {1, DefaultMaxNumberOfMessages} :
       get_messages(person_name, message_type, max_number_of_messages)

Fail == \E dont_delete \in BOOLEAN : fail_messages(dont_delete)

\* Time does not run backwards between two readings of the clock.
Succeed == \E dont_delete \in BOOLEAN, t \in now..MaxTime : succeed_messages(dont_delete, t)

Timeout == \E mid \in inflight : VisibilityTimeout(mid)

Queued == \E key \in Pairs : SchedulerQueues(key)

Next ==
    \/ Publish
    \/ Receive
    \/ Fail
    \/ Succeed
    \/ reset
    \/ Timeout
    \/ Queued

Spec == Init /\ [][Next]_vars

\* The calls of publish_message with a voice and an expiration of their own.
SpeechRequests ==
    [PersonName : Persons, UUID : UUIDs, Body : Bodies,
     NoMoreOccurrences : {FALSE}, BotNames : {""}, unexpected : {FALSE},
     VoiceId : Voices, ExpirationDateTimeInUtc : Expirations]

PublishSpeech ==
    \E r \in SpeechRequests :
       publish_message(r.PersonName, r.UUID, r.Body, r.NoMoreOccurrences, r.BotNames,
                       r.unexpected, r.VoiceId, r.ExpirationDateTimeInUtc)

WriteSpeech ==
    \E person_name \in Persons \cup {""}, dont_delete \in BOOLEAN, t \in now..MaxTime :
       write_speech(person_name, dont_delete, t)

\* Publishing and speaking: the messages differ in voice and expiration.
NextSpeech ==
    \/ PublishSpeech
    \/ WriteSpeech
    \/ Timeout

SpecSpeech == Init /\ [][NextSpeech]_vars

\* Lines 50-63: a new MessageManager takes the place of the instance, as a
\* worker does that is started for its next job. self.sqs_msgs does not
\* exist until the first get_messages.
__init__ ==
    /\ messages # <<>>
    /\ messages' = <<>>
    /\ sqs_msgs' = <<>>
    /\ has_sqs_msgs' = FALSE
    /\ call' = [NoCall EXCEPT !.op = "__init__"]
    /\ UNCHANGED <<queue, bot_queue, published, inflight, occ, now>>

\* The calls of publish_message with the message queue as their target and
\* the other arguments at their defaults.
PlainRequests ==
    [PersonName : Persons, UUID : UUIDs, Body : Bodies,
     NoMoreOccurrences : {FALSE}, BotNames : {""}, unexpected : {FALSE},
     VoiceId : {DefaultVoice}, ExpirationDateTimeInUtc : {DefaultExpiration}]

PublishPlain ==
    \E r \in PlainRequests :
       publish_message(r.PersonName, r.UUID, r.Body, r.NoMoreOccurrences, r.BotNames,
                       r.unexpected, r.VoiceId, r.ExpirationDateTimeInUtc)

\* The calls of get_messages on the message queue, with the other arguments
\* at their defaults.
ReceivePlain ==
    \E person_name \in Persons \cup {""} :
       get_messages(person_name, "Message", DefaultMaxNumberOfMessages)

\* A get_messages that takes the entry with SQS message id mid into its batch.
ReceiveOf(mid) ==
    /\ ReceivePlain
    /\ sqs_msgs' # <<>>
    /\ sqs_msgs'[1].mid = mid

NextFair ==
    \/ PublishPlain
    \/ ReceivePlain
    \/ Fail
    \/ Succeed
    \/ Timeout
    \/ __init__

\* The entry with SQS message id mid is in a queue and not hidden.
Visible(mid) == \E m \in queue \cup bot_queue : m.mid = mid /\ mid \notin inflight

\* Fair scheduling: a visibility timeout that is running runs out; an entry
\* that is visible again and again is there when a worker starts with a new
\* instance, and is received by a get_messages that can take it.
Fairness ==
    \A mid \in 1..MaxPublished :
       /\ WF_vars(VisibilityTimeout(mid))
       /\ SF_vars(__init__ /\ Visible(mid))
       /\ SF_vars(ReceiveOf(mid))

SpecFair == Init /\ [][NextFair]_vars /\ Fairness

----------------------------------------------------------------------------
\* succeed_messages and fail_messages statement by statement, beside the
\* get_messages of another MessageManager instance.

\* No call of the instance is running.
Idle == call.at = <<>>

\* Where a loop over n messages goes on after the statements for the i-th:
\* to the next message, or to the delete_sqs_msgs after the loop.
AfterMessage(i, n, loop_line, delete_line) ==
    IF i < n THEN <<loop_line, i + 1>> ELSE <<delete_line, 1>>

\* Where a loop over n messages starts.
FirstMessage(n, loop_line, delete_line) == AfterMessage(0, n, loop_line, delete_line)

\* succeed_messages_at with the slip of deleting the entry of a message
\* before its occurrence record is updated.
succeed_messages_at_DeletesFirst(W, at, t) ==
    LET i == at[2]
        n == Len(W.sqs_msgs)
        m == W.sqs_msgs[i]
        qm == QueuedMessage(m)
    IN CASE at[1] = 189 ->
              [W |-> [delete_message(W, m) EXCEPT
                         !.occ = update_last_occurrence(@, qm.uuid_key, qm.person_name, t)],
               at |-> <<190, i>>]
         [] at[1] = 190 ->
              [W |-> [W EXCEPT !.occ = update_queue_status(@, qm.uuid_key,
                                                           qm.person_name, FALSE)],
               at |-> IF qm.no_more_occurrences THEN <<192, i>>
                      ELSE AfterMessage(i, n, 189, 193)]
         [] at[1] = 192 ->
              [W |-> [W EXCEPT !.occ = set_expired(@, qm.uuid_key, qm.person_name)],
               at |-> AfterMessage(i, n, 189, 193)]
         [] at[1] = 193 -> [W |-> delete_sqs_msgs(W), at |-> <<>>]

\* Lines 186-193: the statement of succeed_messages at position at, the
\* clock showing t: the world after it and the position after it.
succeed_messages_at(W, at, t) ==
    LET i == at[2]
        n == Len(W.sqs_msgs)
        m == W.sqs_msgs[i]
        qm == QueuedMessage(m)
    IN CASE at[1] = 189 ->
              [W |-> [W EXCEPT !.occ = update_last_occurrence(@, qm.uuid_key,
                                                              qm.person_name, t)],
               at |-> <<190, i>>]
         [] at[1] = 190 ->
              [W |-> [W EXCEPT !.occ = update_queue_status(@, qm.uuid_key,
                                                           qm.person_name, FALSE)],
               at |-> IF qm.no_more_occurrences THEN <<192, i>>
                      ELSE AfterMessage(i, n, 189, 193)]
         [] at[1] = 192 ->
              [W |-> [W EXCEPT !.occ = set_expired(@, qm.uuid_key, qm.person_name)],
               at |-> AfterMessage(i, n, 189, 193)]
         [] at[1] = 193 -> [W |-> delete_sqs_msgs(W), at |-> <<>>]

\* Lines 171-176: the statement of fail_messages at position at.
fail_messages_at(W, at) ==
    LET i == at[2]
        n == Len(W.sqs_msgs)
        qm == QueuedMessage(W.sqs_msgs[i])
    IN CASE at[1] = 175 ->
              [W |-> [W EXCEPT !.occ = update_queue_status(@, qm.uuid_key,
                                                           qm.person_name, FALSE)],
               at |-> AfterMessage(i, n, 175, 176)]
         [] at[1] = 176 -> [W |-> delete_sqs_msgs(W), at |-> <<>>]

\* Lines 178-185: succeed_messages is called and reaches its loop, unless
\* DontDelete makes it return or self.sqs_msgs does not exist.
succeed_messages_begin(dont_delete) ==
    LET error == NoBatchError(dont_delete)
    IN /\ Idle
       /\ call' = [NoCall EXCEPT !.op = "succeed_messages", !.DontDelete = dont_delete,
                                 !.error = error,
                                 !.at = IF dont_delete \/ error # "" THEN <<>>
                                        ELSE FirstMessage(Len(sqs_msgs), 189, 193)]
       /\ UNCHANGED <<queue, bot_queue, published, inflight, occ, messages, sqs_msgs,
                      has_sqs_msgs, now>>

\* Lines 164-170: the same for fail_messages.
fail_messages_begin(dont_delete) ==
    LET error == NoBatchError(dont_delete)
    IN /\ Idle
       /\ call' = [NoCall EXCEPT !.op = "fail_messages", !.DontDelete = dont_delete,
                                 !.error = error,
                                 !.at = IF dont_delete \/ error # "" THEN <<>>
                                        ELSE FirstMessage(Len(sqs_msgs), 175, 176)]
       /\ UNCHANGED <<queue, bot_queue, published, inflight, occ, messages, sqs_msgs,
                      has_sqs_msgs, now>>

\* One statement of the running succeed_messages; line 189 reads the clock.
succeed_messages_step(t) ==
    /\ ~Idle
    /\ call.op = "succeed_messages"
    /\ LET r == succeed_messages_at(World, call.at, t)
       IN /\ SetWorld(r.W)
          /\ call' = [call EXCEPT !.at = r.at]
    /\ now' = IF call.at[1] = 189 THEN t ELSE now
    /\ UNCHANGED <<published, has_sqs_msgs>>

\* One statement of the running fail_messages.
fail_messages_step ==
    /\ ~Idle
    /\ call.op = "fail_messages"
    /\ LET r == fail_messages_at(World, call.at)
       IN /\ SetWorld(r.W)
          /\ call' = [call EXCEPT !.at = r.at]
    /\ UNCHANGED <<published, has_sqs_msgs, now>>

\* The lines at which the running call calls the scheduler.
SchedulerLines == {175, 189, 190, 192}

\* The scheduler call the instance is about to make raises: neither method
\* catches it, the call ends with the error.
SchedulerRaises ==
    /\ ~Idle
    /\ call.at[1] \in SchedulerLines
    /\ call' = [call EXCEPT !.error = "StateStoreError", !.at = <<>>]
    /\ UNCHANGED <<queue, bot_queue, published, inflight, occ, messages, sqs_msgs,
                   has_sqs_msgs, now>>

\* Lines 92-137 run by another MessageManager instance, new and with fields
\* of its own, receive_messages having returned fetched: of its effects the
\* shared ones are kept, the hidden entries and the occurrence records.
other_get_messages_on(person_name, fetched) ==
    get_messages_on([World EXCEPT !.messages = <<>>, !.sqs_msgs = <<>>],
                    person_name, fetched)

other_get_messages_received(person_name, fetched) ==
    LET r == other_get_messages_on(person_name, fetched)
    IN /\ fetched # <<>>
       /\ inflight' = r.W.inflight
       /\ occ' = r.W.occ
       /\ UNCHANGED <<queue, bot_queue, published, messages, sqs_msgs, has_sqs_msgs,
                      now, call>>

OtherReceive ==
    \E person_name \in Persons \cup {""} :
       \E fetched \in ReceiveMessages(queue, inflight, DefaultMaxNumberOfMessages) :
          other_get_messages_received(person_name, fetched)

SucceedBegin == \E dont_delete \in BOOLEAN : succeed_messages_begin(dont_delete)

FailBegin == \E dont_delete \in BOOLEAN : fail_messages_begin(dont_delete)

SucceedStep == \E t \in now..MaxTime : succeed_messages_step(t)

\* The calls of publish_message to the message queue, with and without
\* further occurrences.
StepRequests ==
    [PersonName : Persons, UUID : UUIDs, Body : Bodies,
     NoMoreOccurrences : BOOLEAN, BotNames : {""}, unexpected : {FALSE},
     VoiceId : {DefaultVoice}, ExpirationDateTimeInUtc : {DefaultExpiration}]

PublishStep ==
    /\ Idle
    /\ \E r \in StepRequests :
          publish_message(r.PersonName, r.UUID, r.Body, r.NoMoreOccurrences, r.BotNames,
                          r.unexpected, r.VoiceId, r.ExpirationDateTimeInUtc)

ReceiveStepwise == Idle /\ ReceivePlain

NextSteps ==
    \/ PublishStep
    \/ ReceiveStepwise
    \/ SucceedBegin
    \/ SucceedStep
    \/ FailBegin
    \/ fail_messages_step
    \/ SchedulerRaises
    \/ OtherReceive
    \/ Timeout

SpecSteps == Init /\ [][NextSteps]_vars

\* Publishing alone, with the calls of publish_message that fail a check:
\* publish_message reads nothing that the other methods write.
SpecPublish == Init /\ [][PublishAny]_vars

----------------------------------------------------------------------------
\* The claims.

\* The occurrence key of an SQS message, and a person's list in self.messages.
Key(m) == <<m.UUID, m.PersonName>>
HeldFor(msgs, p) == IF p \in DOMAIN msgs THEN msgs[p] ELSE <<>>

\* A step of get_messages with person filter p ("" for none); call'.fetched
\* is what receive_messages returned in it.
ReceiveStep(p) == call'.op = "get_messages" /\ get_messages_received(p, call'.fetched)

\* C1: after a receive, every record the call added to the batch has
\* in_queue = TRUE in the occurrence record of its (uuid, person) pair.
C1_ReceiveMarksInQueue ==
    [][(\E p \in Persons \cup {""} : ReceiveStep(p)) =>
         \A i \in DOMAIN call'.ret :
            occ'[<<call'.ret[i].uuid_key, call'.ret[i].person_name>>].in_queue = TRUE]_vars

\* C2: a receive with a non-empty person filter p returns no record of another
\* person, adds none to the held records (self.messages, self.sqs_msgs), and
\* leaves the occurrence record of every pair of another person unchanged.
C2_FilterIsolation ==
    [][\A p \in Persons :
         ReceiveStep(p) =>
            /\ \A i \in DOMAIN call'.ret : call'.ret[i].person_name = p
            /\ \A i \in DOMAIN sqs_msgs' : sqs_msgs'[i].PersonName = p
            /\ \A q \in Persons \ {p} :
                  /\ (q \in DOMAIN messages') = (q \in DOMAIN messages)
                  /\ HeldFor(messages', q) = HeldFor(messages, q)
            /\ \A k \in Pairs : k[2] # p => occ'[k] = occ[k]]_vars

\* A receive skipped a fetched record of one person and took a later one of
\* another person, while the skipped record's pair is marked as queued.
C2_Witness ==
    /\ call.op = "get_messages"
    /\ \E i, j \in DOMAIN call.fetched :
          /\ i < j
          /\ call.fetched[i].PersonName # call.fetched[j].PersonName
          /\ call.ret = <<QueuedMessage(call.fetched[j])>>
          /\ occ[Key(call.fetched[i])].in_queue

\* C3: a receive returns all the fetched records that match the filter (all
\* fetched records without a filter), in the order the transport returned them.
C3_ReceiveReturnsAllMatching ==
    [][\A p \in Persons \cup {""} :
         ReceiveStep(p) =>
            LET matching == SelectSeq(call'.fetched,
                                      LAMBDA m : p = "" \/ m.PersonName = p)
            IN /\ Len(call'.ret) = Len(matching)
               /\ \A i \in DOMAIN matching :
                     /\ call'.ret[i].uuid_key = matching[i].UUID
                     /\ call'.ret[i].person_name = matching[i].PersonName]_vars

\* C4: succeed_messages without DontDelete, for every record of the batch:
\* last_occurrence of its pair becomes the current time, in_queue becomes
\* FALSE, and expired becomes TRUE exactly for a record whose NoMoreOccurrences
\* is true; for the others expired keeps its value.
C4_SucceedUpdates ==
    [][\A t \in 1..MaxTime :
         (call'.op = "succeed_messages" /\ succeed_messages(FALSE, t) /\ has_sqs_msgs) =>
            \A i \in DOMAIN sqs_msgs :
               LET m == sqs_msgs[i]
               IN /\ occ'[Key(m)].last_occurrence = t
                  /\ occ'[Key(m)].in_queue = FALSE
                  /\ m.NoMoreOccurrences = "True" => occ'[Key(m)].expired = TRUE
                  /\ m.NoMoreOccurrences # "True" =>
                        occ'[Key(m)].expired = occ[Key(m)].expired]_vars

\* succeed_messages has resolved a batch whose record has no more
\* occurrences: the pair is expired, stamped with the time of the call and
\* not queued.
C4_Witness ==
    /\ call.op = "succeed_messages" /\ ~call.DontDelete /\ call.error = ""
    /\ Len(sqs_msgs) > 0
    /\ sqs_msgs[1].NoMoreOccurrences = "True"
    /\ occ[Key(sqs_msgs[1])].expired
    /\ occ[Key(sqs_msgs[1])].last_occurrence = now
    /\ ~occ[Key(sqs_msgs[1])].in_queue

\* C5: fail_messages sets in_queue = FALSE for the pair of every record of the
\* batch, with DontDelete false and with DontDelete true.
C5_FailClearsInQueue ==
    [][\A dont_delete \in BOOLEAN :
         (call'.op = "fail_messages" /\ call'.error = "" /\ fail_messages(dont_delete)) =>
            \A i \in DOMAIN sqs_msgs : occ'[Key(sqs_msgs[i])].in_queue = FALSE]_vars

\* A step of succeed_messages without DontDelete on a batch holding a record of pair k.
SuccessStepFor(k) ==
    \E t \in 1..MaxTime :
       /\ succeed_messages(FALSE, t)
       /\ \E i \in DOMAIN sqs_msgs : Key(sqs_msgs[i]) = k

\* The same, the record having no more occurrences.
LastSuccessStepFor(k) ==
    \E t \in 1..MaxTime :
       /\ succeed_messages(FALSE, t)
       /\ \E i \in DOMAIN sqs_msgs :
             Key(sqs_msgs[i]) = k /\ sqs_msgs[i].NoMoreOccurrences = "True"

\* C6: last_occurrence of a pair changes only in a step of succeed_messages for
\* a record of the pair; expired becomes TRUE only in such a step for a record
\* with no more occurrences; fail_messages and reset change neither.
C6_OnlySuccessTouches ==
    [][/\ \A k \in Pairs :
            /\ occ'[k].last_occurrence # occ[k].last_occurrence => SuccessStepFor(k)
            /\ (~occ[k].expired /\ occ'[k].expired) => LastSuccessStepFor(k)
       /\ (call'.op \in {"fail_messages", "reset"} /\ (Fail \/ reset)) =>
            \A k \in Pairs :
               /\ occ'[k].last_occurrence = occ[k].last_occurrence
               /\ occ'[k].expired = occ[k].expired]_vars

\* fail_messages has resolved and deleted a batch whose record has no more
\* occurrences, and the pair is neither expired nor stamped.
C6_Witness ==
    /\ call.op = "fail_messages" /\ ~call.DontDelete /\ call.error = ""
    /\ Len(sqs_msgs) > 0
    /\ sqs_msgs[1].NoMoreOccurrences = "True"
    /\ sqs_msgs[1] \notin queue \cup bot_queue
    /\ ~occ[Key(sqs_msgs[1])].expired
    /\ occ[Key(sqs_msgs[1])].last_occurrence = 0

\* C7: succeed_messages with DontDelete still updates the occurrence record of
\* every record of the batch (last_occurrence = current time, in_queue = FALSE,
\* expired = TRUE with no more occurrences) and deletes none of their entries.
C7_DontDeleteStillUpdates ==
    [][\A t \in now..MaxTime :
         (call'.op = "succeed_messages" /\ call'.error = "" /\ succeed_messages(TRUE, t)) =>
            /\ \A i \in DOMAIN sqs_msgs :
                  LET m == sqs_msgs[i]
                  IN /\ occ'[Key(m)].last_occurrence = t
                     /\ occ'[Key(m)].in_queue = FALSE
                     /\ m.NoMoreOccurrences = "True" => occ'[Key(m)].expired = TRUE
            /\ UNCHANGED <<queue, bot_queue>>]_vars

\* C8: a second succeed_messages on the same batch, with no other call in
\* between and at a later time than the first, raises no error and leaves
\* last_occurrence of every pair of the batch at the value the first call set.
C8_SecondSuccessKeepsLastOccurrence ==
    [][\A t \in 1..MaxTime :
         (/\ call.op = "succeed_messages" /\ ~call.DontDelete /\ call.error = ""
          /\ t > now
          /\ succeed_messages(FALSE, t)) =>
            /\ call'.error = ""
            /\ \A i \in DOMAIN sqs_msgs :
                  occ'[Key(sqs_msgs[i])].last_occurrence =
                     occ[Key(sqs_msgs[i])].last_occurrence]_vars

\* C9: a publish_message that passes the checks adds exactly one entry, to the
\* bot queue if and only if BotNames is non-empty and to the message queue
\* otherwise, and leaves the other queue unchanged; no entry is in both queues.
C9_PublishRoutesToOneQueue ==
    [][\A r \in ValidRequests :
         (/\ call'.op = "publish_message"
          /\ publish_message(r.PersonName, r.UUID, r.Body, r.NoMoreOccurrences,
                             r.BotNames, r.unexpected, r.VoiceId,
                             r.ExpirationDateTimeInUtc)) =>
            LET target == IF r.BotNames # "" THEN bot_queue ELSE queue
                target2 == IF r.BotNames # "" THEN bot_queue' ELSE queue'
            IN /\ target \subseteq target2
               /\ Cardinality(target2 \ target) = 1
               /\ \A m \in target2 \ target :
                     /\ m.PersonName = r.PersonName
                     /\ m.Body = r.Body
                     /\ m.NoMoreOccurrences = Str(r.NoMoreOccurrences)
               /\ IF r.BotNames # "" THEN queue' = queue ELSE bot_queue' = bot_queue
               /\ {m.mid : m \in queue'} \cap {m.mid : m \in bot_queue'} = {}]_vars

\* A publish has succeeded and each queue holds an entry.
C9_Witness ==
    /\ call.op = "publish_message" /\ call.error = ""
    /\ queue # {}
    /\ bot_queue # {}

\* C10: publish_message raises ValueError when PersonName is empty, Body is
\* empty or the UUID is empty after defaulting, and then adds no entry to
\* either queue.
C10_InvalidPublishRejected ==
    [][\A r \in PublishRequests :
         (/\ call'.op = "publish_message"
          /\ (r.PersonName = "" \/ r.Body = "" \/ r.UUID = "")
          /\ publish_message(r.PersonName, r.UUID, r.Body, r.NoMoreOccurrences,
                             r.BotNames, r.unexpected, r.VoiceId,
                             r.ExpirationDateTimeInUtc)) =>
            /\ call'.error \in {"ValueError: No person provided",
                                "ValueError: No uuid provided",
                                "ValueError: No message body provided"}
            /\ UNCHANGED <<queue, bot_queue>>]_vars

\* A publish with an empty body has failed while the queues hold entries.
C10_Witness ==
    /\ call.op = "publish_message"
    /\ call.error = "ValueError: No message body provided"
    /\ queue # {}
    /\ bot_queue # {}

\* A step of write_speech for person p that reads the clock at t;
\* call'.fetched is what the receive_messages of its get_messages returned.
SpeechStep(p, t) ==
    call'.op = "write_speech" /\ write_speech_received(p, t, call'.fetched)

\* C11: write_speech for person p raises no error; it returns (None, None)
\* when no record held for p is unexpired, which includes no record held
\* for p while records are held for other persons; otherwise its speech
\* holds the bodies of exactly the unexpired records held for p, in order.
C11_SpeechOfUnexpired ==
    [][\A p \in Persons, t \in 1..MaxTime :
         SpeechStep(p, t) =>
            LET held == HeldFor(messages', p)
                unexpired == SelectSeq(held,
                                LAMBDA m : ~(t > m.expiration_datetime_in_utc))
            IN /\ call'.error = ""
               /\ IF unexpired = <<>>
                  THEN call'.ret = <<>>
                  ELSE /\ Len(call'.ret) = 2
                       /\ call'.ret[2] = [i \in DOMAIN unexpired |-> unexpired[i].body]]_vars

\* C12: when write_speech returns a speech, the voice id it returns is that
\* of the last record whose body is in the speech, the last unexpired record
\* of the person's list; an expired record after it does not set the voice.
C12_VoiceOfLastSpoken ==
    [][\A p \in Persons, t \in 1..MaxTime :
         (SpeechStep(p, t) /\ call'.error = "" /\ Len(call'.ret) = 2) =>
            LET held == HeldFor(messages', p)
                unexpired == SelectSeq(held,
                                LAMBDA m : ~(t > m.expiration_datetime_in_utc))
            IN call'.ret[1] = unexpired[Len(unexpired)].voice_id]_vars

\* The sequences receive_messages can return when it returns every entry of q.
AllOf(q) == {s \in ReceiveMessages(q, {}, DefaultMaxNumberOfMessages) :
               Len(s) = Cardinality(q)}

\* C13: when reset returns, the two queues hold no entry, whatever number of
\* entries they held at the start, and the pair of every record that reset
\* removed has in_queue = FALSE. The cases taken are those most favourable
\* to reset: no entry is hidden at the start and each of the two
\* receive_messages returns every entry of its queue.
C13_ResetDrains ==
    [][call'.op = "reset" /\ inflight = {} =>
         \A bot_fetched \in AllOf(bot_queue), fetched \in AllOf(queue) :
            reset_received(bot_fetched, fetched) =>
               /\ queue' = {}
               /\ bot_queue' = {}
               /\ \A m \in (queue \cup bot_queue) \ (queue' \cup bot_queue') :
                     ~occ'[Key(m)].in_queue]_vars

\* C14: after a receive the records held by the instance are exactly the
\* batch of that receive: every person's list in self.messages holds the
\* person's records of the batch and no record of an earlier receive, and
\* self.sqs_msgs holds the messages of the batch.
C14_HoldsLatestBatchOnly ==
    [][\A p \in Persons \cup {""} :
         ReceiveStep(p) =>
            /\ \A q \in Persons :
                  HeldFor(messages', q) =
                     SelectSeq(call'.ret, LAMBDA m : m.person_name = q)
            /\ Len(sqs_msgs') = Len(call'.ret)
            /\ \A i \in DOMAIN sqs_msgs' : QueuedMessage(sqs_msgs'[i]) = call'.ret[i]]_vars

\* The queue an entry is in, the empty set when it is in neither.
QueueOf(m, q, bq) == IF m \in q THEN q ELSE IF m \in bq THEN bq ELSE {}

\* C15: fail_messages with DontDelete deletes no entry: the queues are as
\* before and so is the set of hidden entries, every record of the batch whose
\* entry was in a queue is still in it, and once such an entry is visible
\* again a receive_messages can return it and get_messages then returns its record.
C15_SuppressedFailKeepsEntries ==
    [][(call'.op = "fail_messages" /\ call'.error = "" /\ fail_messages(TRUE)) =>
         /\ queue' = queue
         /\ bot_queue' = bot_queue
         /\ inflight' = inflight
         /\ \A i \in DOMAIN sqs_msgs :
               LET m == sqs_msgs[i]
                   q == QueueOf(m, queue', bot_queue')
               IN /\ m \in queue \cup bot_queue => m \in q
                  /\ (m \in q /\ m.mid \notin inflight') =>
                        /\ <<m>> \in ReceiveMessages(q, inflight', 1)
                        /\ get_messages_on(World, m.PersonName, <<m>>).ret =
                              <<QueuedMessage(m)>>]_vars

\* fail_messages with DontDelete has returned, the entry of the record of
\* the batch is still in the message queue and its visibility timeout has
\* run out: a receive_messages can return it.
C15_Witness ==
    /\ call.op = "fail_messages" /\ call.DontDelete /\ call.error = ""
    /\ Len(sqs_msgs) > 0
    /\ sqs_msgs[1] \in queue
    /\ sqs_msgs[1].mid \notin inflight
    /\ <<sqs_msgs[1]>> \in ReceiveMessages(queue, inflight, 1)

\* The SQS message ids of the entries of the two queues.
Mids(q, bq) == {m.mid : m \in q \cup bq}

\* A step of succeed_messages or fail_messages without DontDelete that raises no error.
ResolveStep ==
    /\ call'.op \in {"succeed_messages", "fail_messages"}
    /\ ~call'.DontDelete
    /\ call'.error = ""
    /\ (fail_messages(FALSE) \/ \E t \in 1..MaxTime : succeed_messages(FALSE, t))

\* C16: succeed_messages and fail_messages without DontDelete delete the
\* entry of every record of the batch that is still within its visibility
\* timeout; an entry that is gone from the queues never comes back, and a
\* receive returns entries of the queues only, so no later receive returns a
\* record deleted this way.
C16_ResolveDeletesForGood ==
    [][/\ ResolveStep =>
            \A i \in DOMAIN sqs_msgs :
               sqs_msgs[i].mid \in inflight =>
                  sqs_msgs[i].mid \notin Mids(queue', bot_queue')
       /\ \A mid \in 1..published :
             mid \notin Mids(queue, bot_queue) => mid \notin Mids(queue', bot_queue')
       /\ call'.op = "get_messages" /\ call' # call =>
             \A i \in DOMAIN call'.fetched :
                /\ call'.fetched[i] \in queue \cup bot_queue
                /\ call'.fetched[i].mid \in Mids(queue', bot_queue')]_vars

\* Every entry published has been deleted, one of them at least by a
\* succeed_messages, and a receive after that has fetched nothing.
C16_Witness ==
    /\ call.op = "get_messages"
    /\ call.fetched = <<>>
    /\ published > 0
    /\ Mids(queue, bot_queue) = {}
    /\ \E k \in Pairs : occ[k].last_occurrence > 0

\* After a get_messages, the fetched entries it skipped: those in front of the
\* one whose record it returned, all of them when it returned none. (A filter
\* alone makes get_messages pass over an entry, and it stops at the first
\* entry it takes, so no entry in front of that one has the same attributes.)
SkippedOf(c) ==
    {c.fetched[i] : i \in {j \in DOMAIN c.fetched :
                             \A k \in 1..j :
                                c.ret = <<>> \/ QueuedMessage(c.fetched[k]) # c.ret[1]}}

\* The last call was a get_messages that fetched and skipped the entry mid.
WasSkipped(mid) ==
    /\ call.op = "get_messages"
    /\ \E m \in SkippedOf(call) : m.mid = mid

\* The last call was a get_messages that took the entry mid into its batch.
Returned(mid) ==
    /\ call.op = "get_messages"
    /\ sqs_msgs # <<>>
    /\ sqs_msgs[1].mid = mid

\* C17: an entry that a get_messages fetched and skipped is not deleted by
\* the succeed_messages or fail_messages that follows the receive and the
\* occurrence record of its pair is not changed by it; and, under fair
\* scheduling, some later get_messages takes the entry into its batch.
C17_SkippedStaysEligible ==
    /\ [][(call.op = "get_messages" /\ call'.op \in {"succeed_messages", "fail_messages"}
           /\ (Fail \/ Succeed)) =>
             \A m \in SkippedOf(call) :
                /\ m \in queue => m \in queue'
                /\ m \in bot_queue => m \in bot_queue'
                /\ occ'[Key(m)] = occ[Key(m)]]_vars
    /\ \A mid \in 1..MaxPublished : WasSkipped(mid) ~> Returned(mid)

\* A succeed_messages or fail_messages has deleted the entry of its batch
\* while an entry of another person, fetched by the receive and never taken
\* by the instance, is still in the message queue, hidden.
C17_Witness ==
    /\ call.op \in {"succeed_messages", "fail_messages"}
    /\ ~call.DontDelete /\ call.error = ""
    /\ sqs_msgs # <<>>
    /\ sqs_msgs[1] \notin queue
    /\ \E m \in queue :
          /\ m.mid \in inflight
          /\ m.PersonName # sqs_msgs[1].PersonName
          /\ m.PersonName \notin DOMAIN messages

\* C18: while the batch of a get_messages is not resolved (no call has
\* followed the receive) and the visibility timeout of a record of the batch
\* is still running, the pair of that record has in_queue = TRUE.
C18_AbandonedBatchStaysQueued ==
    call.op = "get_messages" =>
       \A i \in DOMAIN sqs_msgs :
          sqs_msgs[i].mid \in inflight => occ[Key(sqs_msgs[i])].in_queue

\* The running succeed_messages has applied a part of its updates to pair k
\* and not the rest: it is between the update_last_occurrence of line 189
\* and the end of the statements for a message of the pair.
PartialSuccess(k) ==
    /\ call.op = "succeed_messages"
    /\ ~Idle
    /\ call.at[1] \in {190, 192}
    /\ Key(sqs_msgs[call.at[2]]) = k

\* C19: the updates succeed_messages applies to one pair are atomic for the
\* other workers: no get_messages of another instance takes a record of a
\* pair while a success of that pair is partially applied.
C19_SuccessIsAtomic ==
    [][(call' = call /\ inflight' # inflight /\ inflight \subseteq inflight') =>
         \A p \in Persons \cup {""} :
            \A fetched \in ReceiveMessages(queue, inflight, DefaultMaxNumberOfMessages) :
               LET ret == other_get_messages_on(p, fetched).ret
               IN (other_get_messages_received(p, fetched) /\ ret # <<>>) =>
                     ~PartialSuccess(<<ret[1].uuid_key, ret[1].person_name>>)]_vars

\* A step of the running succeed_messages or fail_messages.
ResolveStatement == ~Idle /\ (SucceedStep \/ fail_messages_step)

\* C20: succeed_messages and fail_messages without DontDelete delete no
\* entry before every record of the batch has had its updates: a statement
\* that removes an entry from a queue is the delete_sqs_msgs after the loop,
\* and in succeed_messages every pair of the batch then carries the time
\* and, with no more occurrences, the expiry of this call; when a scheduler
\* call raises, the call ends with that error and the queues and the hidden
\* entries are as they were when the call began its loop.
C20_DeletesAfterAllUpdates ==
    [][/\ (ResolveStatement /\ Mids(queue', bot_queue') # Mids(queue, bot_queue)) =>
            /\ call.at[1] \in {176, 193}
            /\ call.op = "succeed_messages" =>
                  \A i \in DOMAIN sqs_msgs :
                     /\ occ[Key(sqs_msgs[i])].last_occurrence = now
                     /\ sqs_msgs[i].NoMoreOccurrences = "True" =>
                           occ[Key(sqs_msgs[i])].expired
       /\ (ResolveStatement /\ call.at[1] \in SchedulerLines) =>
            UNCHANGED <<queue, bot_queue, inflight>>
       /\ (~Idle /\ SchedulerRaises) =>
            /\ call'.error = "StateStoreError"
            /\ call'.at = <<>>
            /\ UNCHANGED <<queue, bot_queue, inflight>>]_vars

\* A scheduler call of succeed_messages has raised after the first update
\* of a record: the pair carries the time of the call, the call has ended
\* with the error, and the entry of the record is still in the message queue.
C20_Witness ==
    /\ call.op = "succeed_messages" /\ call.error = "StateStoreError"
    /\ Idle
    /\ sqs_msgs # <<>>
    /\ sqs_msgs[1] \in queue
    /\ occ[Key(sqs_msgs[1])].last_occurrence = now

====
